---- MODULE Spec2Model ----
(***************************************************************************)
(* Model of src/src/data_preparation.py: the per-table aggregators, the    *)
(* left-join combinator, the final cleaning pass and prepare_dataset.      *)
(*                                                                         *)
(* A table is a record [cols, dtype, rows]: the ordered column names, the  *)
(* dtype of every column and the rows in order, each row a function from   *)
(* column name to cell value.  A cell value is a record [k, n, d, s]:      *)
(*   k = "num"  the rational n/d in lowest terms, d > 0                    *)
(*   k = "inf"  +infinity (n = 1) or -infinity (n = -1)                    *)
(*   k = "nan"  the float NaN, the missing marker of a float64 column      *)
(*   k = "NA"   pd.NA, the missing marker of a nullable Float64 column     *)
(*   k = "str"  the string s                                               *)
(*   k = "bool" False (n = 0) or True (n = 1)                              *)
(* Floating point arithmetic is modelled exactly (rationals), with the     *)
(* IEEE results of a division by zero.                                     *)
(***************************************************************************)
EXTENDS Integers, Sequences, FiniteSets, TLC

\* ------------------------------------------------------------------------
\* Cell values
\* ------------------------------------------------------------------------

Abs(i) == IF i < 0 THEN -i ELSE i

RECURSIVE GCD(_, _)
GCD(a, b) == IF b = 0 THEN a ELSE GCD(b, a % b)

Num(n, d) ==
  LET g == GCD(Abs(n), d)
  IN  [k |-> "num", n |-> n \div g, d |-> d \div g, s |-> ""]

IntV(i) == Num(i, 1)

NaN == [k |-> "nan", n |-> 0, d |-> 0, s |-> ""]

NA == [k |-> "NA", n |-> 0, d |-> 0, s |-> ""]

PosInf == [k |-> "inf", n |-> 1, d |-> 0, s |-> ""]

NegInf == [k |-> "inf", n |-> -1, d |-> 0, s |-> ""]

Str(s) == [k |-> "str", n |-> 0, d |-> 0, s |-> s]

Bool(b) == [k |-> "bool", n |-> IF b THEN 1 ELSE 0, d |-> 1, s |-> ""]

\* Series.isna(): NaN, None and pd.NA are missing; infinities are not.
isna(v) == v.k \in {"nan", "NA"}

IsFinite(v) == v.k = "num"

IsInf(v) == v.k = "inf"

\* The missing marker a column of the given dtype holds.
MissingOf(dt) == IF dt = "Float64" THEN NA ELSE NaN

\* a + b on present finite numbers (a bool counts as 0 or 1).
Add(a, b) == Num(a.n * b.d + b.n * a.d, a.d * b.d)

\* Series - Series: a missing operand gives a missing result.
Sub(a, b) ==
  IF isna(a) \/ isna(b) THEN NaN
  ELSE Num(a.n * b.d - b.n * a.d, a.d * b.d)

\* Series / Series on float64: x/0 is +-inf, 0/0 is NaN, missing propagates.
Div(a, b) ==
  IF isna(a) \/ isna(b) THEN NaN
  ELSE IF b.n = 0
       THEN (IF a.n > 0 THEN PosInf ELSE IF a.n < 0 THEN NegInf ELSE NaN)
       ELSE IF b.n > 0 THEN Num(a.n * b.d, a.d * b.n)
            ELSE Num(-(a.n * b.d), a.d * (-b.n))

\* a < b on numbers and infinities.
Less(a, b) ==
  IF IsInf(a) THEN a.n = -1 /\ ~(IsInf(b) /\ b.n = -1)
  ELSE IF IsInf(b) THEN b.n = 1
       ELSE a.n * b.d < b.n * a.d

\* (a + b) / 2 as floats compute it, infinities included.
Avg(a, b) ==
  IF IsInf(a) /\ IsInf(b) THEN (IF a.n = b.n THEN a ELSE NaN)
  ELSE IF IsInf(a) THEN a
       ELSE IF IsInf(b) THEN b
            ELSE Num(a.n * b.d + b.n * a.d, 2 * a.d * b.d)

\* ------------------------------------------------------------------------
\* Sequences of cells
\* ------------------------------------------------------------------------

RECURSIVE SelectSeqOf(_, _)
\* The subsequence of the present (non-missing) cells.
SelectSeqOf(vals, i) ==
  IF i > Len(vals) THEN <<>>
  ELSE IF isna(vals[i]) THEN SelectSeqOf(vals, i + 1)
       ELSE <<vals[i]>> \o SelectSeqOf(vals, i + 1)

Present(vals) == SelectSeqOf(vals, 1)

RECURSIVE SumSeq(_)
SumSeq(vals) ==
  IF vals = <<>> THEN IntV(0) ELSE Add(Head(vals), SumSeq(Tail(vals)))

RECURSIVE MaxSeq(_)
MaxSeq(vals) ==
  IF Len(vals) = 1 THEN vals[1]
  ELSE LET m == MaxSeq(Tail(vals))
       IN  IF Less(Head(vals), m) THEN m ELSE Head(vals)

\* groupby "sum": missing cells are skipped, an empty group sums to 0.
agg_sum(vals) == SumSeq(Present(vals))

\* groupby "mean": missing cells are skipped, an empty group gives NaN.
agg_mean(vals) ==
  LET p == Present(vals)
  IN  IF p = <<>> THEN NaN
      ELSE LET t == SumSeq(p) IN Num(t.n, t.d * Len(p))

\* groupby "max": missing cells are skipped, an empty group gives NaN.
agg_max(vals) ==
  LET p == Present(vals) IN IF p = <<>> THEN NaN ELSE MaxSeq(p)

\* groupby "count": the number of present cells.
agg_count(vals) == IntV(Len(Present(vals)))

ApplyStat(stat, vals) ==
  CASE stat = "mean" -> agg_mean(vals)
    [] stat = "sum" -> agg_sum(vals)
    [] stat = "max" -> agg_max(vals)
    [] stat = "count" -> agg_count(vals)

\* The dtype of an aggregated column.
StatDtype(stat, dt) ==
  CASE stat = "mean" -> "float64"
    [] stat = "count" -> "int64"
    [] stat = "sum" -> (IF dt = "bool" THEN "int64" ELSE dt)
    [] stat = "max" -> dt

RECURSIVE Insert(_, _)
\* v inserted into the ascending sequence s.
Insert(v, s) ==
  IF s = <<>> THEN <<v>>
  ELSE IF Less(v, Head(s)) THEN <<v>> \o s
       ELSE <<Head(s)>> \o Insert(v, Tail(s))

RECURSIVE SortVals(_)
SortVals(vals) ==
  IF vals = <<>> THEN <<>> ELSE Insert(Head(vals), SortVals(Tail(vals)))

\* Series.median(): over the present cells; NaN when there is none.
median(vals) ==
  LET p == SortVals(Present(vals))
      n == Len(p)
  IN  IF n = 0 THEN NaN
      ELSE IF n % 2 = 1 THEN p[(n + 1) \div 2]
           ELSE Avg(p[n \div 2], p[n \div 2 + 1])

RECURSIVE SortInts(_)
\* The ascending sequence of a finite set of integers.
SortInts(S) ==
  IF S = {} THEN <<>>
  ELSE LET m == CHOOSE x \in S : \A y \in S : x <= y
       IN  <<m>> \o SortInts(S \ {m})

RECURSIVE Uniques(_, _)
\* The distinct present cells in order of first appearance.
Uniques(vals, seen) ==
  IF vals = <<>> THEN <<>>
  ELSE IF isna(Head(vals)) \/ Head(vals) \in seen
       THEN Uniques(Tail(vals), seen)
       ELSE <<Head(vals)>> \o Uniques(Tail(vals), seen \cup {Head(vals)})

IndexOf(seq, v) == CHOOSE i \in 1..Len(seq) : seq[i] = v

Range(seq) == {seq[i] : i \in 1..Len(seq)}

RECURSIVE Flatten(_)
Flatten(ss) == IF ss = <<>> THEN <<>> ELSE Head(ss) \o Flatten(Tail(ss))

\* ------------------------------------------------------------------------
\* Tables
\* ------------------------------------------------------------------------

Table(cols, dtype, rows) == [cols |-> cols, dtype |-> dtype, rows |-> rows]

NRows(t) == Len(t.rows)

Column(t, c) == [i \in 1..NRows(t) |-> t.rows[i][c]]

\* The rows of t whose key cell equals v, in row order.
RowsWith(t, key, v) == SelectSeq(t.rows, LAMBDA r : r[key] = v)

\* groupby(key): the distinct present keys in ascending order.
GroupKeys(t, key) ==
  SortInts({t.rows[i][key].n : i \in {j \in 1..NRows(t) : ~isna(t.rows[j][key])}})

GroupVals(t, key, kv, c) ==
  LET g == RowsWith(t, key, IntV(kv)) IN [i \in 1..Len(g) |-> g[i][c]]

\* t.groupby(key).agg(...) followed by the renaming of the (column, statistic)
\* pairs and reset_index(): specs is the sequence of [col, stat, name].
GroupAgg(t, key, specs) ==
  LET keys == GroupKeys(t, key)
      names == [i \in 1..Len(specs) |-> specs[i].name]
      cols == <<key>> \o names
      row(kv) ==
        [c \in Range(cols) |->
           IF c = key THEN IntV(kv)
           ELSE LET sp == specs[IndexOf(names, c)]
                IN  ApplyStat(sp.stat, GroupVals(t, key, kv, sp.col))]
  IN  Table(cols,
            [c \in Range(cols) |->
               IF c = key THEN t.dtype[key]
               ELSE LET sp == specs[IndexOf(names, c)]
                    IN  StatDtype(sp.stat, t.dtype[sp.col])],
            [i \in 1..Len(keys) |-> row(keys[i])])

\* t with the column c of cells vals appended (df[c] = ...), or replaced when
\* present.
WithColumn(t, c, dt, vals) ==
  Table(IF c \in Range(t.cols) THEN t.cols ELSE Append(t.cols, c),
        [x \in Range(t.cols) \cup {c} |-> IF x = c THEN dt ELSE t.dtype[x]],
        [i \in 1..NRows(t) |->
           [x \in Range(t.cols) \cup {c} |->
              IF x = c THEN vals[i] ELSE t.rows[i][x]]])

\* df[cols]: the projection on the listed columns.
Project(t, cols) ==
  Table(cols, [c \in Range(cols) |-> t.dtype[c]],
        [i \in 1..NRows(t) |-> [c \in Range(cols) |-> t.rows[i][c]]])

\* df.drop(columns=[c]).
DropColumn(t, c) == Project(t, SelectSeq(t.cols, LAMBDA x : x # c))

\* The dtype a right-hand column takes in a left join that leaves a row
\* unmatched: an int64 column becomes float64, a bool column object.
UpcastDtype(dt) ==
  CASE dt = "int64" -> "float64"
    [] dt = "bool" -> "object"
    [] OTHER -> dt

\* how="inner" in place of how="left": a left row no right row matches is
\* dropped.
merge_inner(left, right, on) ==
  LET rcols == SelectSeq(right.cols, LAMBDA c : c # on)
      cols == left.cols \o rcols
      joined(l, r) ==
        [c \in Range(cols) |-> IF c \in Range(left.cols) THEN l[c] ELSE r[c]]
      expand(l) ==
        LET m == RowsWith(right, on, l[on])
        IN  [j \in 1..Len(m) |-> joined(l, m[j])]
  IN  Table(cols,
            [c \in Range(cols) |->
               IF c \in Range(left.cols) THEN left.dtype[c] ELSE right.dtype[c]],
            Flatten([i \in 1..NRows(left) |-> expand(left.rows[i])]))

\* left.merge(right, on=on, how="left"): every left row in order, once per
\* matching right row, or once with the right columns missing when no right
\* row matches.  A non-key column name present on both sides is suffixed
\* _x on the left and _y on the right.
merge_left(left, right, on) ==
  LET overlap == (Range(left.cols) \cap Range(right.cols)) \ {on}
      LName(c) == IF c \in overlap THEN c \o "_x" ELSE c
      RName(c) == IF c \in overlap THEN c \o "_y" ELSE c
      rcols == SelectSeq(right.cols, LAMBDA c : c # on)
      lnames == [i \in 1..Len(left.cols) |-> LName(left.cols[i])]
      rnames == [i \in 1..Len(rcols) |-> RName(rcols[i])]
      cols == lnames \o rnames
      unmatched == \E i \in 1..NRows(left) :
                     RowsWith(right, on, left.rows[i][on]) = <<>>
      rdtype(c) == IF unmatched THEN UpcastDtype(right.dtype[c])
                   ELSE right.dtype[c]
      joined(l, r) ==
        [c \in Range(cols) |->
           IF c \in Range(lnames) THEN l[left.cols[IndexOf(lnames, c)]]
           ELSE r[rcols[IndexOf(rnames, c)]]]
      blank == [c \in Range(rcols) |-> MissingOf(right.dtype[c])]
      expand(l) ==
        LET m == RowsWith(right, on, l[on])
        IN  IF m = <<>> THEN <<joined(l, blank)>>
            ELSE [j \in 1..Len(m) |-> joined(l, m[j])]
  IN  Table(cols,
            [c \in Range(cols) |->
               IF c \in Range(lnames) THEN left.dtype[left.cols[IndexOf(lnames, c)]]
               ELSE rdtype(rcols[IndexOf(rnames, c)])],
            Flatten([i \in 1..NRows(left) |-> expand(left.rows[i])]))

\* df.groupby(key).mean().reset_index(): the mean of every other column.
GroupMean(t, key) ==
  LET others == SelectSeq(t.cols, LAMBDA c : c # key)
  IN  GroupAgg(t, key,
               [i \in 1..Len(others) |->
                  [col |-> others[i], stat |-> "mean", name |-> others[i]]])

\* str.upper() on the statistic names the aggregations use (the column names
\* of the source tables are upper case already).
Upper(s) ==
  CASE s = "mean" -> "MEAN"
    [] s = "sum" -> "SUM"
    [] s = "max" -> "MAX"
    [] s = "count" -> "COUNT"
    [] OTHER -> s

\* ------------------------------------------------------------------------
\* preprocess_bureau_data
\* ------------------------------------------------------------------------

\* "_".join(col) of a (column, statistic) pair.
JoinName(col, stat) == col \o "_" \o stat

AggSpec(col, stat, name) == [col |-> col, stat |-> stat, name |-> name]

bureau_agg_specs ==
  << AggSpec("AMT_CREDIT_SUM", "mean", JoinName("AMT_CREDIT_SUM", "mean")),
     AggSpec("AMT_CREDIT_SUM", "sum", JoinName("AMT_CREDIT_SUM", "sum")),
     AggSpec("AMT_CREDIT_SUM_DEBT", "mean", JoinName("AMT_CREDIT_SUM_DEBT", "mean")),
     AggSpec("AMT_CREDIT_SUM_DEBT", "sum", JoinName("AMT_CREDIT_SUM_DEBT", "sum")),
     AggSpec("DAYS_CREDIT", "mean", JoinName("DAYS_CREDIT", "mean")),
     AggSpec("SK_ID_BUREAU", "count", JoinName("SK_ID_BUREAU", "count")) >>

\* Series.fillna(0): only a missing cell is replaced; an infinity is kept.
fillna_zero(v) == IF isna(v) THEN IntV(0) ELSE v

\* DEBT_CREDIT_RATIO of one aggregated row.
debt_credit_ratio(r) ==
  fillna_zero(Div(r["AMT_CREDIT_SUM_DEBT_sum"], r["AMT_CREDIT_SUM_sum"]))

bureau_agg(bureau) ==
  LET g == GroupAgg(bureau, "SK_ID_CURR", bureau_agg_specs)
  IN  WithColumn(g, "DEBT_CREDIT_RATIO", "float64",
                 [i \in 1..NRows(g) |-> debt_credit_ratio(g.rows[i])])

\* The status values in the order get_dummies sorts them.
StatusOrder == <<"0", "1", "C", "X">>

\* pd.get_dummies(bureau_balance, columns=["STATUS"]): one boolean indicator
\* column per observed status value, after the remaining columns.
bb_onehot(bureau_balance) ==
  LET seen == {bureau_balance.rows[i]["STATUS"].s :
                 i \in {j \in 1..NRows(bureau_balance) :
                          ~isna(bureau_balance.rows[j]["STATUS"])}}
      stats == SelectSeq(StatusOrder, LAMBDA v : v \in seen)
      kept == SelectSeq(bureau_balance.cols, LAMBDA c : c # "STATUS")
      dcols == [i \in 1..Len(stats) |-> "STATUS_" \o stats[i]]
      cols == kept \o dcols
  IN  Table(cols,
            [c \in Range(cols) |->
               IF c \in Range(kept) THEN bureau_balance.dtype[c] ELSE "bool"],
            [i \in 1..NRows(bureau_balance) |->
               [c \in Range(cols) |->
                  IF c \in Range(kept) THEN bureau_balance.rows[i][c]
                  ELSE Bool(bureau_balance.rows[i]["STATUS"]
                              = Str(stats[IndexOf(dcols, c)]))]])

bb_agg(bureau_balance) == GroupMean(bb_onehot(bureau_balance), "SK_ID_BUREAU")

bureau_bb(bureau, bureau_balance) ==
  merge_left(Project(bureau, <<"SK_ID_BUREAU", "SK_ID_CURR">>),
             bb_agg(bureau_balance), "SK_ID_BUREAU")

\* The per-client groupby left out.
bb_final_ungrouped(bureau, bureau_balance) ==
  Project(bureau_bb(bureau, bureau_balance),
          <<"SK_ID_CURR">> \o
            SelectSeq(bureau_bb(bureau, bureau_balance).cols,
                      LAMBDA c : c \notin {"SK_ID_CURR", "SK_ID_BUREAU"}))

bb_final(bureau, bureau_balance) ==
  GroupMean(DropColumn(bureau_bb(bureau, bureau_balance), "SK_ID_BUREAU"),
            "SK_ID_CURR")

preprocess_bureau_data(bureau, bureau_balance) ==
  merge_left(bureau_agg(bureau), bb_final(bureau, bureau_balance), "SK_ID_CURR")

\* ------------------------------------------------------------------------
\* preprocess_previous_applications
\* ------------------------------------------------------------------------

\* "PREV_" + "_".join(col).upper()
PrevName(col, stat) == "PREV_" \o col \o "_" \o Upper(stat)

prev_agg_specs ==
  << AggSpec("AMT_APPLICATION", "mean", PrevName("AMT_APPLICATION", "mean")),
     AggSpec("AMT_APPLICATION", "sum", PrevName("AMT_APPLICATION", "sum")),
     AggSpec("AMT_CREDIT", "mean", PrevName("AMT_CREDIT", "mean")),
     AggSpec("AMT_CREDIT", "sum", PrevName("AMT_CREDIT", "sum")),
     AggSpec("AMT_DOWN_PAYMENT", "mean", PrevName("AMT_DOWN_PAYMENT", "mean")),
     AggSpec("AMT_ANNUITY", "mean", PrevName("AMT_ANNUITY", "mean")),
     AggSpec("CNT_PAYMENT", "mean", PrevName("CNT_PAYMENT", "mean")),
     AggSpec("DAYS_DECISION", "mean", PrevName("DAYS_DECISION", "mean")),
     AggSpec("SK_ID_PREV", "count", PrevName("SK_ID_PREV", "count")) >>

\* Only +inf replaced.
replace_pos_inf(v) == IF v = PosInf THEN NA ELSE v

\* Series.replace([inf, -inf], pd.NA)
replace_inf(v) == IF IsInf(v) THEN NA ELSE v

\* Series.astype("Float64"): NaN becomes the masked pd.NA; numbers (and an
\* infinity, were one left) are kept.
astype_Float64(v) == IF isna(v) THEN NA ELSE v

\* PREV_CREDIT_TO_APPLICATION_RATIO of one aggregated row.
credit_to_application_ratio(r) ==
  astype_Float64(replace_inf(Div(r["PREV_AMT_CREDIT_SUM"],
                                 r["PREV_AMT_APPLICATION_SUM"])))

preprocess_previous_applications(prev) ==
  LET g == GroupAgg(prev, "SK_ID_CURR", prev_agg_specs)
  IN  WithColumn(g, "PREV_CREDIT_TO_APPLICATION_RATIO", "Float64",
                 [i \in 1..NRows(g) |-> credit_to_application_ratio(g.rows[i])])

\* ------------------------------------------------------------------------
\* preprocess_installments
\* ------------------------------------------------------------------------

\* "INSTALL_" + "_".join(col).upper()
InstallName(col, stat) == "INSTALL_" \o col \o "_" \o Upper(stat)

install_agg_specs ==
  << AggSpec("PAYMENT_DELAY", "mean", InstallName("PAYMENT_DELAY", "mean")),
     AggSpec("PAYMENT_DELAY", "max", InstallName("PAYMENT_DELAY", "max")),
     AggSpec("PAYMENT_RATIO", "mean", InstallName("PAYMENT_RATIO", "mean")),
     AggSpec("MISSED_PAYMENT", "sum", InstallName("MISSED_PAYMENT", "sum")),
     AggSpec("AMT_PAYMENT", "sum", InstallName("AMT_PAYMENT", "sum")) >>

payment_delay(r) == Sub(r["DAYS_ENTRY_PAYMENT"], r["DAYS_INSTALMENT"])

\* Series.replace([inf, -inf], None): an infinite ratio becomes missing.
replace_inf_none(v) == IF IsInf(v) THEN NaN ELSE v

payment_ratio(r) == replace_inf_none(Div(r["AMT_PAYMENT"], r["AMT_INSTALMENT"]))

\* <= 0 in place of == 0.
missed_payment_nonpositive(r) ==
  Bool(isna(r["AMT_PAYMENT"]) \/ ~Less(IntV(0), r["AMT_PAYMENT"]))

\* df["AMT_PAYMENT"].isna() | (df["AMT_PAYMENT"] == 0)
missed_payment(r) == Bool(isna(r["AMT_PAYMENT"]) \/ r["AMT_PAYMENT"] = IntV(0))

\* The installment rows with the three derived columns.
installment_rows(df) ==
  WithColumn(
    WithColumn(
      WithColumn(df, "PAYMENT_DELAY", "float64",
                 [i \in 1..NRows(df) |-> payment_delay(df.rows[i])]),
      "PAYMENT_RATIO", "float64",
      [i \in 1..NRows(df) |-> payment_ratio(df.rows[i])]),
    "MISSED_PAYMENT", "bool",
    [i \in 1..NRows(df) |-> missed_payment(df.rows[i])])

preprocess_installments(df) ==
  GroupAgg(installment_rows(df), "SK_ID_CURR", install_agg_specs)

\* ------------------------------------------------------------------------
\* merge_all_features, preprocess_final
\* ------------------------------------------------------------------------

\* The return inside the loop: only the first Feature Table is merged.
merge_first_only(app_df, feature_dfs) ==
  IF feature_dfs = <<>> THEN app_df
  ELSE merge_left(app_df, Head(feature_dfs), "SK_ID_CURR")

RECURSIVE merge_all_features(_, _)
\* for feature_df in feature_dfs: app_df = app_df.merge(feature_df, ...)
merge_all_features(app_df, feature_dfs) ==
  IF feature_dfs = <<>> THEN app_df
  ELSE merge_all_features(merge_left(app_df, Head(feature_dfs), "SK_ID_CURR"),
                          Tail(feature_dfs))

\* The dtypes select_dtypes(include=['float64', 'int64']) keeps: the nullable
\* Float64 dtype has the scalar type float64 and is selected with them.
NumericDtypes == {"float64", "int64", "Float64"}

num_cols(df) == SelectSeq(df.cols, LAMBDA c : df.dtype[c] \in NumericDtypes)

\* Series.fillna(m): a missing cell takes m, unless m is itself missing.
fillna_with(v, m) == IF isna(v) /\ ~isna(m) THEN m ELSE v

\* df[num_cols] = df[num_cols].fillna(df[num_cols].median())
fill_numeric(df) ==
  LET nc == Range(num_cols(df))
      med == [c \in nc |-> median(Column(df, c))]
  IN  Table(df.cols, df.dtype,
            [i \in 1..NRows(df) |->
               [c \in Range(df.cols) |->
                  IF c \in nc THEN fillna_with(df.rows[i][c], med[c])
                  ELSE df.rows[i][c]]])

\* Series.nunique(): the number of distinct present values.
nunique(vals) == Len(Uniques(vals, {}))

\* The code pd.factorize gives a missing cell.
NaSentinel == -1

\* A missing cell left missing by the encoding.
factorize_code_keep_missing(vals, v) ==
  IF isna(v) THEN NaN ELSE IntV(IndexOf(Uniques(vals, {}), v) - 1)

\* Codes by sorted value (sort=True) in place of first appearance.
factorize_code_sorted(vals, v) ==
  IF isna(v) THEN IntV(-1)
  ELSE LET seen == Range(Uniques(vals, {}))
           sorted == SelectSeq(<<Str("F"), Str("M"), Str("XNA")>>,
                               LAMBDA x : x \in seen)
       IN  IntV(IndexOf(sorted, v) - 1)

\* pd.factorize(vals)[0] at one cell: the 0-based rank of the value in order
\* of first appearance, and the sentinel -1 for a missing cell.
factorize_code(vals, v) ==
  IF isna(v) THEN IntV(NaSentinel) ELSE IntV(IndexOf(Uniques(vals, {}), v) - 1)

\* The loop over the object columns: a column with exactly two distinct
\* present values is replaced by its codes and becomes int64.
encode_binary(df) ==
  LET enc == {c \in Range(df.cols) :
                df.dtype[c] = "object" /\ nunique(Column(df, c)) = 2}
  IN  Table(df.cols,
            [c \in Range(df.cols) |-> IF c \in enc THEN "int64" ELSE df.dtype[c]],
            [i \in 1..NRows(df) |->
               [c \in Range(df.cols) |->
                  IF c \in enc THEN factorize_code(Column(df, c), df.rows[i][c])
                  ELSE df.rows[i][c]]])

preprocess_final(df) == encode_binary(fill_numeric(df))

\* ------------------------------------------------------------------------
\* The tables the files hold
\* ------------------------------------------------------------------------

\* The most rows a records table of one aggregator call holds.
MaxRows == 2

\* The most rows the bureau-balance table of one aggregator call holds.
MaxBalanceRows == 1

\* The most rows each records table of a full prepare_dataset run holds.
MaxRunRows == 2

\* The most rows a merged table handed to preprocess_final alone holds.
MaxFinalRows == 3

\* The most Feature Tables handed to merge_all_features alone.
MaxFeatureTables == 2

\* The clients of the primary table, and the clients the records tables
\* speak of: client 2 has no record anywhere, client 3 no application.
PrimaryClients == {1, 2}

AuxClients == {1, 3}

NoTable == Table(<<>>, <<>>, <<>>)

SeqsUpTo(S, n) == UNION {[1..k -> S] : k \in 0..n}

\* The row sequences of a records file: at least one row, so that read_csv
\* infers the column dtypes from the data.
RowSeqs(S, n) == UNION {[1..k -> S] : k \in 1..n}

\* read_csv of a file with the given header, column dtypes and rows.
read_csv(cols, dtypes, rows) ==
  Table(cols, [c \in Range(cols) |-> dtypes[IndexOf(cols, c)]], rows)

bureau_cols ==
  <<"SK_ID_CURR", "SK_ID_BUREAU", "AMT_CREDIT_SUM", "AMT_CREDIT_SUM_DEBT",
    "DAYS_CREDIT">>

bureau_dtypes == <<"int64", "int64", "float64", "float64", "int64">>

\* (summed-to-be credit, debt) pairs of one bureau record.
BureauAmounts ==
  { <<IntV(0), IntV(0)>>, <<IntV(0), IntV(1)>>, <<IntV(0), IntV(-1)>>,
    <<IntV(4), IntV(1)>>, <<NaN, NaN>> }

BureauRow(c, b, a) ==
  [SK_ID_CURR |-> IntV(c), SK_ID_BUREAU |-> IntV(b), AMT_CREDIT_SUM |-> a[1],
   AMT_CREDIT_SUM_DEBT |-> a[2], DAYS_CREDIT |-> IntV(-3)]

BureauTables(ids, amounts, n) ==
  {read_csv(bureau_cols, bureau_dtypes, rows) :
     rows \in RowSeqs({BureauRow(c, b, a) :
                          c \in AuxClients, b \in ids, a \in amounts}, n)}

balance_cols == <<"SK_ID_BUREAU", "MONTHS_BALANCE", "STATUS">>

balance_dtypes == <<"int64", "int64", "object">>

BalanceRow(b, st) ==
  [SK_ID_BUREAU |-> IntV(b), MONTHS_BALANCE |-> IntV(-1), STATUS |-> Str(st)]

\* Balance rows of bureau record 1 and of a bureau record 3 that no bureau
\* row carries.
BalanceTables(n) ==
  {read_csv(balance_cols, balance_dtypes, rows) :
     rows \in RowSeqs({BalanceRow(b, st) : b \in {1, 3}, st \in {"0", "C"}}, n)}

prev_cols ==
  <<"SK_ID_CURR", "SK_ID_PREV", "AMT_APPLICATION", "AMT_CREDIT",
    "AMT_DOWN_PAYMENT", "AMT_ANNUITY", "CNT_PAYMENT", "DAYS_DECISION">>

prev_dtypes ==
  <<"int64", "int64", "float64", "float64", "float64", "float64", "float64",
    "int64">>

\* (requested amount, approved credit) pairs of one previous application.
PrevAmounts ==
  { <<IntV(0), IntV(0)>>, <<IntV(0), IntV(2)>>, <<IntV(0), IntV(-2)>>,
    <<IntV(3), IntV(2)>>, <<NaN, IntV(2)>> }

PrevRow(c, a) ==
  [SK_ID_CURR |-> IntV(c), SK_ID_PREV |-> IntV(7), AMT_APPLICATION |-> a[1],
   AMT_CREDIT |-> a[2], AMT_DOWN_PAYMENT |-> NaN, AMT_ANNUITY |-> IntV(1),
   CNT_PAYMENT |-> IntV(12), DAYS_DECISION |-> IntV(-5)]

PrevTables(amounts, n) ==
  {read_csv(prev_cols, prev_dtypes, rows) :
     rows \in RowSeqs({PrevRow(c, a) : c \in AuxClients, a \in amounts}, n)}

inst_cols ==
  <<"SK_ID_CURR", "DAYS_INSTALMENT", "DAYS_ENTRY_PAYMENT", "AMT_INSTALMENT",
    "AMT_PAYMENT">>

inst_dtypes == <<"int64", "float64", "float64", "float64", "float64">>

\* (scheduled amount, paid amount) pairs of one installment.
InstAmounts ==
  { <<IntV(2), IntV(2)>>, <<IntV(2), IntV(0)>>, <<IntV(2), NaN>>,
    <<IntV(2), IntV(-1)>>, <<IntV(0), IntV(2)>> }

InstRow(c, a) ==
  [SK_ID_CURR |-> IntV(c), DAYS_INSTALMENT |-> IntV(-5),
   DAYS_ENTRY_PAYMENT |-> IF isna(a[2]) THEN NaN ELSE IntV(-4),
   AMT_INSTALMENT |-> a[1], AMT_PAYMENT |-> a[2]]

InstTables(amounts, n) ==
  {read_csv(inst_cols, inst_dtypes, rows) :
     rows \in RowSeqs({InstRow(c, a) : c \in AuxClients, a \in amounts}, n)}

\* The primary application file: application_train.csv carries the TARGET
\* label, application_test.csv does not.
app_cols(train) ==
  IF train THEN <<"SK_ID_CURR", "TARGET", "CODE_GENDER", "AMT_INCOME_TOTAL">>
  ELSE <<"SK_ID_CURR", "CODE_GENDER", "AMT_INCOME_TOTAL">>

app_dtypes(train) ==
  IF train THEN <<"int64", "int64", "object", "float64">>
  ELSE <<"int64", "object", "float64">>

AppRow(train, c) ==
  [x \in Range(app_cols(train)) |->
     CASE x = "SK_ID_CURR" -> IntV(c)
       [] x = "TARGET" -> IntV(c % 2)
       [] x = "CODE_GENDER" -> Str(IF c = 1 THEN "F" ELSE "M")
       [] x = "AMT_INCOME_TOTAL" -> IF c = 1 THEN IntV(9) ELSE NaN]

\* Primary tables: every client at most once, in any row order.
AppTables(train) ==
  {read_csv(app_cols(train), app_dtypes(train),
            [i \in 1..Len(ids) |-> AppRow(train, ids[i])]) :
     ids \in {q \in SeqsUpTo(PrimaryClients, Cardinality(PrimaryClients)) :
                Len(q) > 0 /\ \A i, j \in 1..Len(q) : i # j => q[i] # q[j]}}

\* The records tables of a full run: one bureau record id, one amount pair
\* per table, so that the keys are what varies.
RunBureauTables == BureauTables({1}, {<<IntV(4), IntV(1)>>}, MaxRunRows)

RunBalanceTables ==
  {read_csv(balance_cols, balance_dtypes, rows) :
     rows \in {<<BalanceRow(1, "C")>>, <<BalanceRow(3, "0")>>}}

RunPrevTables == PrevTables({<<IntV(3), IntV(2)>>}, MaxRunRows)

RunInstTables == InstTables({<<IntV(2), IntV(0)>>}, MaxRunRows)

\* ------------------------------------------------------------------------
\* State
\* ------------------------------------------------------------------------

VARIABLES
  pc,           \* the place of the run, or the function that has returned
  is_train,     \* the mode prepare_dataset was called with
  records,      \* the tables the running function was given or has read
  app_df,       \* the primary table
  bureau_df,    \* the three Feature Tables
  prev_app_df,
  inst_df,
  full_df,      \* the merged table, cleaned in place by preprocess_final
  again         \* the result of a second preprocess_final pass

vars ==
  <<pc, is_train, records, app_df, bureau_df, prev_app_df, inst_df, full_df,
    again>>

Init ==
  /\ pc = "start"
  /\ is_train = TRUE
  /\ records = <<>>
  /\ app_df = NoTable
  /\ bureau_df = NoTable
  /\ prev_app_df = NoTable
  /\ inst_df = NoTable
  /\ full_df = NoTable
  /\ again = NoTable

\* ------------------------------------------------------------------------
\* prepare_dataset, one action per statement
\* ------------------------------------------------------------------------

\* load_application_data: the caller chooses the mode; the file of the mode
\* exists and is read.
Load ==
  /\ pc = "start"
  /\ \E train \in BOOLEAN :
       /\ is_train' = train
       /\ \E app \in AppTables(train) :
            /\ app_df' = app
            /\ records' = <<app>>
  /\ pc' = "loaded"
  /\ UNCHANGED <<bureau_df, prev_app_df, inst_df, full_df, again>>

\* load_application_data: the file is absent, FileNotFoundError ends the run.
LoadMissing ==
  /\ pc = "start"
  /\ pc' = "FileNotFoundError"
  /\ UNCHANGED <<is_train, records, app_df, bureau_df, prev_app_df, inst_df,
                 full_df, again>>

Bureau ==
  /\ pc = "loaded"
  /\ \E bureau \in RunBureauTables, bureau_balance \in RunBalanceTables :
       /\ records' = <<bureau, bureau_balance>>
       /\ bureau_df' = preprocess_bureau_data(bureau, bureau_balance)
  /\ pc' = "bureau"
  /\ UNCHANGED <<is_train, app_df, prev_app_df, inst_df, full_df, again>>

Prev ==
  /\ pc = "bureau"
  /\ \E prev \in RunPrevTables :
       /\ records' = <<prev>>
       /\ prev_app_df' = preprocess_previous_applications(prev)
  /\ pc' = "prev"
  /\ UNCHANGED <<is_train, app_df, bureau_df, inst_df, full_df, again>>

Inst ==
  /\ pc = "prev"
  /\ \E df \in RunInstTables :
       /\ records' = <<df>>
       /\ inst_df' = preprocess_installments(df)
  /\ pc' = "inst"
  /\ UNCHANGED <<is_train, app_df, bureau_df, prev_app_df, full_df, again>>

Merge ==
  /\ pc = "inst"
  /\ records' = <<>>
  /\ full_df' = merge_all_features(app_df, <<bureau_df, prev_app_df, inst_df>>)
  /\ pc' = "merged"
  /\ UNCHANGED <<is_train, app_df, bureau_df, prev_app_df, inst_df, again>>

Final ==
  /\ pc = "merged"
  /\ full_df' = preprocess_final(full_df)
  /\ pc' = "done"
  /\ UNCHANGED <<is_train, records, app_df, bureau_df, prev_app_df, inst_df,
                 again>>

Next == Load \/ LoadMissing \/ Bureau \/ Prev \/ Inst \/ Merge \/ Final

Spec == Init /\ [][Next]_vars

\* ------------------------------------------------------------------------
\* The aggregators called on their own
\* ------------------------------------------------------------------------

CallBureau ==
  /\ pc = "start"
  /\ \E bureau \in BureauTables({1, 2}, BureauAmounts, MaxRows),
        bureau_balance \in BalanceTables(MaxBalanceRows) :
       /\ records' = <<bureau, bureau_balance>>
       /\ bureau_df' = preprocess_bureau_data(bureau, bureau_balance)
  /\ pc' = "bureau_ret"
  /\ UNCHANGED <<is_train, app_df, prev_app_df, inst_df, full_df, again>>

CallPrev ==
  /\ pc = "start"
  /\ \E prev \in PrevTables(PrevAmounts, MaxRows) :
       /\ records' = <<prev>>
       /\ prev_app_df' = preprocess_previous_applications(prev)
  /\ pc' = "prev_ret"
  /\ UNCHANGED <<is_train, app_df, bureau_df, inst_df, full_df, again>>

\* records holds df as the function leaves it, the derived columns added.
CallInst ==
  /\ pc = "start"
  /\ \E df \in InstTables(InstAmounts, MaxRows) :
       /\ records' = <<installment_rows(df)>>
       /\ inst_df' = preprocess_installments(df)
  /\ pc' = "inst_ret"
  /\ UNCHANGED <<is_train, app_df, bureau_df, prev_app_df, full_df, again>>

NextAgg == CallBureau \/ CallPrev \/ CallInst

SpecAgg == Init /\ [][NextAgg]_vars

\* ------------------------------------------------------------------------
\* merge_all_features called on its own, on any Feature Tables
\* ------------------------------------------------------------------------

FeatureNames == <<"F1", "F2", "F3">>

\* The k-th Feature Table of a call: a key column and one value column; the
\* keys are any clients, repeated or not.
FeatureTable(k, keys) ==
  read_csv(<<"SK_ID_CURR", FeatureNames[k]>>, <<"int64", "int64">>,
           [j \in 1..Len(keys) |->
              [c \in {"SK_ID_CURR", FeatureNames[k]} |->
                 IF c = "SK_ID_CURR" THEN IntV(keys[j]) ELSE IntV(10 * k + j)]])

FeatureLists ==
  {[k \in 1..Len(ks) |-> FeatureTable(k, ks[k])] :
     ks \in SeqsUpTo(SeqsUpTo(AuxClients, MaxRows), MaxFeatureTables)}

CallMerge ==
  /\ pc = "start"
  /\ \E train \in BOOLEAN :
       /\ is_train' = train
       /\ \E app \in AppTables(train), feature_dfs \in FeatureLists :
            /\ app_df' = app
            /\ records' = feature_dfs
            /\ full_df' = merge_all_features(app, feature_dfs)
  /\ pc' = "merge_ret"
  /\ UNCHANGED <<bureau_df, prev_app_df, inst_df, again>>

NextMerge == CallMerge

SpecMerge == Init /\ [][NextMerge]_vars

\* ------------------------------------------------------------------------
\* preprocess_final called on its own, once and then on its own result
\* ------------------------------------------------------------------------

\* A merged table: the key, a categorical column and a ratio column, which
\* is float64 (missing: NaN) or the nullable Float64 (missing: pd.NA).
merged_cols == <<"SK_ID_CURR", "CODE_GENDER", "CREDIT_RATIO">>

MergedRow(i, g, x) ==
  [SK_ID_CURR |-> IntV(i), CODE_GENDER |-> g, CREDIT_RATIO |-> x]

MergedTables ==
  {read_csv(merged_cols, <<"int64", "object", dt>>,
            [i \in 1..Len(cells) |->
               MergedRow(i, cells[i][1],
                         IF cells[i][2] = 0 THEN MissingOf(dt)
                         ELSE IntV(cells[i][2]))]) :
     dt \in {"float64", "Float64"},
     cells \in SeqsUpTo({NaN, Str("F"), Str("M"), Str("XNA")} \X {0, 1, 6},
                        MaxFinalRows)}

CallFinal ==
  /\ pc = "start"
  /\ \E df \in MergedTables :
       /\ records' = <<df>>
       /\ full_df' = preprocess_final(df)
  /\ pc' = "final_ret"
  /\ UNCHANGED <<is_train, app_df, bureau_df, prev_app_df, inst_df, again>>

CallFinalAgain ==
  /\ pc = "final_ret"
  /\ again' = preprocess_final(full_df)
  /\ pc' = "final_again"
  /\ UNCHANGED <<is_train, records, app_df, bureau_df, prev_app_df, inst_df,
                 full_df>>

NextFinal == CallFinal \/ CallFinalAgain

SpecFinal == Init /\ [][NextFinal]_vars

\* ------------------------------------------------------------------------
\* Properties
\* ------------------------------------------------------------------------

\* The client identifiers of a table, in row order.
Keys(t) == [i \in 1..NRows(t) |-> t.rows[i]["SK_ID_CURR"]]

\* No client identifier on two rows.
KeyUnique(t) == \A i, j \in 1..NRows(t) : i # j => Keys(t)[i] # Keys(t)[j]

\* The number of rows of t that carry the key v.
Occurrences(t, v) == Cardinality({i \in 1..NRows(t) : Keys(t)[i] = v})

\* C1: the table prepare_dataset builds, after the merge and after the final
\* cleaning, has as many rows as the primary table, and every client of the
\* primary table is on exactly one of them.
C1_RowCountPreserved ==
  pc \in {"merged", "done"} =>
    /\ NRows(full_df) = NRows(app_df)
    /\ \A v \in Range(Keys(app_df)) : Occurrences(full_df, v) = 1
    /\ Range(Keys(full_df)) = Range(Keys(app_df))

\* A finished test-mode run over two primary clients in which client 1 has two
\* bureau records, two previous applications and two installments.
C1_Witness ==
  /\ pc = "done"
  /\ ~is_train
  /\ NRows(app_df) = 2
  /\ \E i \in 1..2 :
       /\ full_df.rows[i]["SK_ID_BUREAU_count"] = IntV(2)
       /\ full_df.rows[i]["PREV_SK_ID_PREV_COUNT"] = IntV(2)
       /\ full_df.rows[i]["INSTALL_AMT_PAYMENT_SUM"] = IntV(0)
       /\ full_df.rows[i]["INSTALL_MISSED_PAYMENT_SUM"] = IntV(2)

\* C2: in the table preprocess_bureau_data returns, a client whose summed
\* credit is 0 has DEBT_CREDIT_RATIO exactly 0.
C2_ZeroCreditRatioIsZero ==
  pc = "bureau_ret" =>
    \A i \in 1..NRows(bureau_df) :
      bureau_df.rows[i]["AMT_CREDIT_SUM_sum"] = IntV(0) =>
        bureau_df.rows[i]["DEBT_CREDIT_RATIO"] = IntV(0)

\* C3: when prepare_dataset is done, no cell of a numeric column is missing.
C3_NoNumericMissing ==
  pc = "done" =>
    \A c \in Range(num_cols(full_df)) : \A i \in 1..NRows(full_df) :
      ~isna(full_df.rows[i][c])

\* C4: merge_all_features does not return when one of the Feature Tables it
\* is given holds a client identifier twice, and what it returns never has
\* more rows than the primary table.
C4_DuplicateKeyRejected ==
  pc = "merge_ret" =>
    /\ \A k \in 1..Len(records) : KeyUnique(records[k])
    /\ NRows(full_df) <= NRows(app_df)

\* C5: in the table preprocess_previous_applications returns, a client whose
\* summed requested amount is 0 has a missing PREV_CREDIT_TO_APPLICATION_RATIO:
\* not a finite number and not an infinity.
C5_ZeroApplicationRatioMissing ==
  pc = "prev_ret" =>
    \A i \in 1..NRows(prev_app_df) :
      prev_app_df.rows[i]["PREV_AMT_APPLICATION_SUM"] = IntV(0) =>
        /\ isna(prev_app_df.rows[i]["PREV_CREDIT_TO_APPLICATION_RATIO"])
        /\ ~IsFinite(prev_app_df.rows[i]["PREV_CREDIT_TO_APPLICATION_RATIO"])
        /\ ~IsInf(prev_app_df.rows[i]["PREV_CREDIT_TO_APPLICATION_RATIO"])

\* Two clients with a zero requested sum: one with a negative approved sum, one
\* with a zero approved sum.
C5_Witness ==
  /\ pc = "prev_ret"
  /\ NRows(prev_app_df) = 2
  /\ \A i \in 1..2 : prev_app_df.rows[i]["PREV_AMT_APPLICATION_SUM"] = IntV(0)
  /\ prev_app_df.rows[1]["PREV_AMT_CREDIT_SUM"] = IntV(-2)
  /\ prev_app_df.rows[2]["PREV_AMT_CREDIT_SUM"] = IntV(0)

\* The installment rows of client v whose paid amount is missing or 0.
MissedRows(df, v) ==
  {i \in 1..NRows(df) :
     /\ Keys(df)[i] = v
     /\ df.rows[i]["AMT_PAYMENT"].k # "num" \/ df.rows[i]["AMT_PAYMENT"].n = 0}

\* C6: MISSED_PAYMENT is True on the rows whose paid amount is missing or 0 and
\* False on every other row, and INSTALL_MISSED_PAYMENT_SUM of a client is the
\* number of its rows flagged True.
C6_MissedPayment ==
  pc = "inst_ret" =>
    /\ \A i \in 1..NRows(records[1]) :
         records[1].rows[i]["MISSED_PAYMENT"]
           = Bool(i \in MissedRows(records[1], Keys(records[1])[i]))
    /\ \A j \in 1..NRows(inst_df) :
         inst_df.rows[j]["INSTALL_MISSED_PAYMENT_SUM"]
           = IntV(Cardinality(
               {i \in 1..NRows(records[1]) :
                  /\ Keys(records[1])[i] = Keys(inst_df)[j]
                  /\ records[1].rows[i]["MISSED_PAYMENT"] = Bool(TRUE)}))

\* A client with a negative paid amount and an unpaid installment: one missed.
C6_Witness ==
  /\ pc = "inst_ret"
  /\ NRows(records[1]) = 2
  /\ NRows(inst_df) = 1
  /\ records[1].rows[1]["AMT_PAYMENT"] = IntV(-1)
  /\ records[1].rows[1]["MISSED_PAYMENT"] = Bool(FALSE)
  /\ isna(records[1].rows[2]["AMT_PAYMENT"])
  /\ inst_df.rows[1]["INSTALL_MISSED_PAYMENT_SUM"] = IntV(1)

\* C7: a second pass of preprocess_final over the result of the first changes
\* no cell, no dtype and no column.
C7_FinalIdempotent == pc = "final_again" => again = full_df

\* The first pass imputed a ratio and encoded a gender column that had a
\* missing entry; the second pass has run.
C7_Witness ==
  /\ pc = "final_again"
  /\ full_df # records[1]
  /\ \E i \in 1..NRows(full_df) :
       /\ isna(records[1].rows[i]["CREDIT_RATIO"])
       /\ ~isna(full_df.rows[i]["CREDIT_RATIO"])
  /\ \E i \in 1..NRows(full_df) : full_df.rows[i]["CODE_GENDER"] = IntV(-1)

\* The object columns of df with exactly two distinct present values.
BinaryColumns(df) ==
  {c \in Range(df.cols) :
     /\ df.dtype[c] = "object"
     /\ Cardinality({df.rows[i][c] : i \in 1..NRows(df)} \ {NaN, NA}) = 2}

\* The first present cell of column c.
FirstSeen(df, c) ==
  df.rows[CHOOSE i \in 1..NRows(df) :
            /\ ~isna(df.rows[i][c])
            /\ \A j \in 1..(i - 1) : isna(df.rows[j][c])][c]

\* C8 as stated: every cell of a two-valued categorical column is 0 or 1 after
\* preprocess_final, 0 for the value seen first, also in a column that has
\* missing entries.
C8_CodesZeroOrOne ==
  pc = "final_ret" =>
    \A c \in BinaryColumns(records[1]) : \A i \in 1..NRows(full_df) :
      /\ full_df.rows[i][c] \in {IntV(0), IntV(1)}
      /\ (full_df.rows[i][c] = IntV(0)
            <=> records[1].rows[i][c] = FirstSeen(records[1], c))

\* C8 amended: every present cell of a two-valued categorical column becomes 0
\* when it holds the value seen first and 1 when it holds the other, and every
\* missing cell becomes -1.
C8_CodesFirstSeenOrSentinel ==
  pc = "final_ret" =>
    \A c \in BinaryColumns(records[1]) :
      /\ full_df.dtype[c] = "int64"
      /\ \A i \in 1..NRows(full_df) :
           full_df.rows[i][c] =
             IF isna(records[1].rows[i][c]) THEN IntV(-1)
             ELSE IF records[1].rows[i][c] = FirstSeen(records[1], c)
                  THEN IntV(0) ELSE IntV(1)

\* A gender column <<missing, "M", "F">>: "M" is seen first.
C8_Witness ==
  /\ pc = "final_ret"
  /\ NRows(full_df) = 3
  /\ isna(records[1].rows[1]["CODE_GENDER"])
  /\ records[1].rows[2]["CODE_GENDER"] = Str("M")
  /\ records[1].rows[3]["CODE_GENDER"] = Str("F")
  /\ full_df.rows[2]["CODE_GENDER"] = IntV(0)
  /\ full_df.rows[3]["CODE_GENDER"] = IntV(1)

\* The client identifiers present in a records table.
ClientsOf(t) == Range(Keys(t))

\* t has exactly one row for every client of the records table src.
OneRowPerClient(t, src) == KeyUnique(t) /\ Range(Keys(t)) = ClientsOf(src)

\* C9: the Feature Table of each aggregator has exactly one row for every
\* client of its records table and no other row.
C9_FeatureKeysUnique ==
  /\ pc = "bureau_ret" => OneRowPerClient(bureau_df, records[1])
  /\ pc = "prev_ret" => OneRowPerClient(prev_app_df, records[1])
  /\ pc = "inst_ret" => OneRowPerClient(inst_df, records[1])

\* Client 1 has two bureau records, record 1 with a balance history and record
\* 2 without.
C9_Witness ==
  /\ pc = "bureau_ret"
  /\ NRows(records[1]) = 2
  /\ Keys(records[1]) = <<IntV(1), IntV(1)>>
  /\ records[1].rows[1]["SK_ID_BUREAU"] = IntV(1)
  /\ records[1].rows[2]["SK_ID_BUREAU"] = IntV(2)
  /\ NRows(records[2]) = 1
  /\ records[2].rows[1]["SK_ID_BUREAU"] = IntV(1)
  /\ NRows(bureau_df) = 1

\* The Feature Tables of the run, in the order prepare_dataset merges them.
FeatureDfs == <<bureau_df, prev_app_df, inst_df>>

\* The columns a Feature Table adds to the merged table.
ValueCols(t) == Range(t.cols) \ {"SK_ID_CURR"}

\* C10: merging the three Feature Tables in any order gives the same rows, the
\* same column names and the same cell for every client and column; a client
\* a Feature Table has no row for is missing in that table's columns and only
\* there; the primary columns keep their names and values.
C10_MergeOrderIndependent ==
  pc = "merged" =>
    /\ \A p \in Permutations(1..3) :
         LET m == merge_all_features(
                    app_df, [k \in 1..3 |-> FeatureDfs[p[k]]])
         IN  /\ Range(m.cols) = Range(full_df.cols)
             /\ m.rows = full_df.rows
    /\ Range(full_df.cols) =
         Range(app_df.cols) \cup UNION {ValueCols(FeatureDfs[k]) : k \in 1..3}
    /\ Len(full_df.cols) =
         Len(app_df.cols) + Len(bureau_df.cols) + Len(prev_app_df.cols)
           + Len(inst_df.cols) - 3
    /\ \A i \in 1..NRows(full_df) :
         /\ \A c \in Range(app_df.cols) : full_df.rows[i][c] = app_df.rows[i][c]
         /\ \A k \in 1..3 :
              LET f == FeatureDfs[k]
                  hit == {j \in 1..NRows(f) : Keys(f)[j] = Keys(app_df)[i]}
              IN  \A c \in ValueCols(f) :
                    IF hit = {} THEN isna(full_df.rows[i][c])
                    ELSE \E j \in hit : full_df.rows[i][c] = f.rows[j][c]

\* Two primary clients merged: client 1 has a row in the bureau and the
\* installment Feature Tables and none in the previous-application one;
\* client 2 has a row in none.
C10_Witness ==
  /\ pc = "merged"
  /\ Keys(app_df) = <<IntV(2), IntV(1)>>
  /\ IntV(1) \in Range(Keys(bureau_df))
  /\ IntV(1) \in Range(Keys(inst_df))
  /\ Keys(prev_app_df) = <<IntV(3)>>
  /\ full_df.rows[2]["DEBT_CREDIT_RATIO"] = Num(1, 4)
  /\ isna(full_df.rows[2]["PREV_CREDIT_TO_APPLICATION_RATIO"])
  /\ isna(full_df.rows[1]["DEBT_CREDIT_RATIO"])

====
